---- MODULE Spec2Model ----
(***************************************************************************)
(* Neighborhood-Neighborhood CPU kernel for 3D data (NATTEN, naive CPU     *)
(* backend): NeighborhoodNeighborhood3D::launch applies neighborhood       *)
(* attention weights to neighborhood values.                               *)
(*                                                                         *)
(* Three state machines share this module.                                 *)
(*   SpecAxis  one axis of launch: the two window-bound calls followed by  *)
(*             the strided window loop, for every (extent, kernel_size,    *)
(*             dilation, is_causal, position) within the bounds.           *)
(*   SpecEnum  one coordinate of launch: the six window bounds followed by *)
(*             the three nested window loops and the weights offset each   *)
(*             round computes.                                             *)
(*   Spec      the whole launch: the flattened coordinate range is split   *)
(*             into contiguous chunks, one per worker, and the workers     *)
(*             interleave; each step is one round of the channel loop,     *)
(*             ending with its store.                                      *)
(* FairSpec is Spec with weak fairness on every worker.                    *)
(*                                                                         *)
(* get_window_start and get_window_end are defined in                      *)
(* natten_cpu_commons.h; they follow the Window Boundary Resolver of the   *)
(* specification document (contract, non-causal policy, causal policy,     *)
(* dilation, concrete scenarios 2-4).                                      *)
(***************************************************************************)
EXTENDS Integers, Sequences, FiniteSets, TLC

\* ------------------------------------------------------------------ bounds
\* SpecAxis: largest axis extent and largest dilation drawn.
MaxExtent == 9
MaxDilation == 3
\* SpecEnum: largest axis extent and largest dilation drawn.
MaxEnumExtent == 3
MaxEnumDilation == 2
\* Spec: largest flattened coordinate range, largest extent of one axis,
\* largest channel count, largest dilation, largest padding of a weights
\* row, and the number of workers.
MaxCoords == 4
\* FairSpec: largest flattened coordinate range.
MaxFairCoords == 2
MaxAxis == 4
MaxDim == 2
MaxLaunchDilation == 2
MaxPad == 1
NumWorkers == 2

\* ------------------------------------------------------- integer helpers
Max(a, b) == IF a >= b THEN a ELSE b
Min(a, b) == IF a <= b THEN a ELSE b
\* C++ integer division (truncation toward zero), b > 0.
CDiv(a, b) == IF a >= 0 THEN a \div b ELSE -((-a) \div b)

\* The largest int32_t.
INT32_MAX == 2147483647

\* An int32_t as its four two's-complement bytes, lowest first.
int32_bytes(n) ==
  LET m == IF n >= 0 THEN n ELSE (n + INT32_MAX) + 1
      top == (m \div 16777216) % 256
  IN <<m % 256, (m \div 256) % 256, (m \div 65536) % 256,
       IF n >= 0 THEN top ELSE top + 128>>

\* The int32_t four two's-complement bytes stand for.
int32_value(r) ==
  r[1] + r[2] * 256 + r[3] * 65536
  + (IF r[4] >= 128 THEN r[4] - 256 ELSE r[4]) * 16777216

\* launch, line 130: operator* on two int32_t. A product outside the int32_t
\* range keeps its low 32 bits (the imul of the builds).
int32_mul(a, b) ==
  LET x == int32_bytes(a)
      y == int32_bytes(b)
      c1 == x[1] * y[1]
      c2 == x[1] * y[2] + x[2] * y[1] + c1 \div 256
      c3 == x[1] * y[3] + x[2] * y[2] + x[3] * y[1] + c2 \div 256
      c4 == x[1] * y[4] + x[2] * y[3] + x[3] * y[2] + x[4] * y[1] + c3 \div 256
  IN int32_value(<<c1 % 256, c2 % 256, c3 % 256, c4 % 256>>)

\* ------------------------------------------- window bounds (one axis)
\* Window Boundary Resolver, first index of the window of `index`.
\* Causal: the sampled positions index, index - dilation, ... end at index
\* and are at most kernel_size, none below 0 (max(0, index - kernel_size + 1)
\* for dilation 1). Non-causal: the window of kernel_size * dilation indices
\* starts neighborhood_size * dilation below index and is shifted into
\* [0, length): up at the lower end, down by the overflow at the upper end.
\* When kernel_size * dilation > length no window of that width fits and the
\* window is [0, length).
get_window_start(index, length, kernel_size, neighborhood_size, dilation, is_causal) ==
  IF is_causal
  THEN index - Min(kernel_size - 1, index \div dilation) * dilation
  ELSE Max(0, Min(index - neighborhood_size * dilation, length - kernel_size * dilation))

\* Window Boundary Resolver, one past the last index of the window. Causal:
\* the window ends at index itself. Non-causal: kernel_size * dilation
\* indices from the start, and never past length.
get_window_end(index, start_index, length, kernel_size, neighborhood_size, dilation, is_causal) ==
  IF is_causal
  THEN index + 1
  ELSE Min(length, start_index + kernel_size * dilation)

\* launch, lines 120-122: auto neighborhood_size_a = kernel_size_a / 2.
neighborhood_size(kernel_size) == CDiv(kernel_size, 2)

\* launch, lines 145-165: the get_window_start call of one axis.
window_start(index, length, kernel_size, dilation, is_causal) ==
  get_window_start(index, length, kernel_size, neighborhood_size(kernel_size),
                   dilation, is_causal)

\* Mutant: the first two arguments of the call are swapped.
window_end_swapped(index, start_index, length, kernel_size, dilation, is_causal) ==
  get_window_end(start_index, index, length, kernel_size,
                 CDiv(kernel_size, 2), dilation, is_causal)

\* launch, lines 166-189: the get_window_end call of one axis.
window_end(index, start_index, length, kernel_size, dilation, is_causal) ==
  get_window_end(index, start_index, length, kernel_size,
                 neighborhood_size(kernel_size), dilation, is_causal)

\* Mutants: an inclusive loop bound; a loop that steps by one.
loop_continues_inclusive(x, e) == x <= e
loop_next_unit(x, dilation) == x + 1

\* launch, lines 197-199: the loop condition and the loop increment.
loop_continues(x, e) == x < e
loop_next(x, dilation) == x + dilation

\* launch, lines 203-206: int32_t((x - n) / dilation), the per-axis offset.
axis_offset(x, n, dilation) == CDiv(x - n, dilation)

VARIABLES
  ax,      \* SpecAxis: the axis inputs index, length, kernel_size, dilation, is_causal
  apc,     \* "start" | "end" | "loop" | "done"
  an,      \* the window start (nk / ni / nj)
  ae,      \* the window end (ek / ei / ej)
  axx,     \* the loop variable (xk / xi / xj)
  aseen,   \* the positions the loop has visited, in order
  eq,      \* SpecEnum: extents, kernel_size, dilation, is_causal and the coordinate
  epc,     \* "windows" | "loop" | "done"
  ewin,    \* the six window bounds
  eseen,   \* per finished round of the innermost loop: <<triple, weights offset>>
  p,       \* Spec: launch's arguments and the strides it derives
  chunk,   \* per worker: the [start, end) range parallel_for hands it
  wx,      \* per worker: the loop variable x
  wd,      \* per worker: the loop variable d
  mem      \* output (the elements stored so far), and per element the number
           \* of stores and the <<worker, x>> that stored it

avars == <<ax, apc, an, ae, axx, aseen>>
evars == <<eq, epc, ewin, eseen>>
lvars == <<p, chunk, wx, wd, mem>>
vars == <<ax, apc, an, ae, axx, aseen, eq, epc, ewin, eseen, p, chunk, wx, wd, mem>>

\* ==================================================================
\* SpecAxis: one axis of launch.
\* ==================================================================
\* The documented preconditions: 0 <= index < length, kernel_size <= length,
\* dilation >= 1.
AxisInputs ==
  UNION { { [index |-> i, length |-> l, kernel_size |-> k, dilation |-> d, is_causal |-> c] :
              i \in 0..(l - 1), k \in 1..l, d \in 1..MaxDilation, c \in BOOLEAN } :
          l \in 1..MaxExtent }

AxisInit ==
  /\ ax \in AxisInputs
  /\ apc = "start"
  /\ an = 0
  /\ ae = 0
  /\ axx = 0
  /\ aseen = <<>>

ResolveStart ==
  /\ apc = "start"
  /\ an' = window_start(ax.index, ax.length, ax.kernel_size, ax.dilation, ax.is_causal)
  /\ apc' = "end"
  /\ UNCHANGED <<ax, ae, axx, aseen>>
  /\ UNCHANGED <<evars, lvars>>

ResolveEnd ==
  /\ apc = "end"
  /\ ae' = window_end(ax.index, an, ax.length, ax.kernel_size, ax.dilation, ax.is_causal)
  /\ axx' = an
  /\ apc' = "loop"
  /\ UNCHANGED <<ax, an, aseen>>
  /\ UNCHANGED <<evars, lvars>>

LoopStep ==
  /\ apc = "loop"
  /\ loop_continues(axx, ae)
  /\ aseen' = Append(aseen, axx)
  /\ axx' = loop_next(axx, ax.dilation)
  /\ UNCHANGED <<ax, apc, an, ae>>
  /\ UNCHANGED <<evars, lvars>>

LoopExit ==
  /\ apc = "loop"
  /\ ~loop_continues(axx, ae)
  /\ apc' = "done"
  /\ UNCHANGED <<ax, an, ae, axx, aseen>>
  /\ UNCHANGED <<evars, lvars>>

AxisNext == ResolveStart \/ ResolveEnd \/ LoopStep \/ LoopExit

\* ==================================================================
\* The body of launch's x loop.
\* ==================================================================
\* launch, lines 123-127: the strides of values and output.
values_stride_4(q) == q.dim
\* Mutant: the row stride is taken from height instead of width.
values_stride_3_height(q) == q.height * values_stride_4(q)
values_stride_3(q) == q.width * values_stride_4(q)
values_stride_2(q) == q.height * values_stride_3(q)
values_stride_1(q) == q.depth * values_stride_2(q)
values_stride_0(q) == q.heads * values_stride_1(q)

\* launch, lines 103-105: the length of one weights row.
KernelVolume(q) == q.kernel_size[1] * q.kernel_size[2] * q.kernel_size[3]

\* launch, lines 111-115: the five weights strides are the caller's. The
\* layouts drawn: rows of KernelVolume entries followed by `pad` unused ones,
\* ordered (batch, heads, depth, height, width) or, when heads_first,
\* (heads, batch, depth, height, width).
weights_strides(q, pad, heads_first) ==
  LET s4 == KernelVolume(q) + pad
      s3 == q.width * s4
      s2 == q.height * s3
      inner == q.depth * s2
  IN IF heads_first
     THEN <<inner, q.batch_size * inner, s2, s3, s4>>
     ELSE <<q.heads * inner, inner, s2, s3, s4>>

\* The contents of values and weights, read-only: distinct per element so
\* that a wrong index reads a wrong number.
values(f) == f + 1
weights(f) == 2 * f + 1

\* launch, lines 134-144: the flat index x as (b, h, k, i, j).
Coord(x, q) ==
  LET indtmp1a == CDiv(x, q.width)
      j        == x - indtmp1a * q.width
      indtmp2a == CDiv(indtmp1a, q.height)
      i        == indtmp1a - indtmp2a * q.height
      indtmp1b == indtmp2a
      indtmp2b == CDiv(indtmp1b, q.depth)
      k        == indtmp1b - indtmp2b * q.depth
      indtmp1c == indtmp2b
      indtmp2c == CDiv(indtmp1c, q.heads)
      h        == indtmp1c - indtmp2c * q.heads
      b        == indtmp2c
  IN [b |-> b, h |-> h, k |-> k, i |-> i, j |-> j]

\* launch, lines 145-189: the six window bounds of a coordinate.
Window(c, q) ==
  LET nk == window_start(c.k, q.depth,  q.kernel_size[1], q.dilation[1], q.is_causal[1])
      ni == window_start(c.i, q.height, q.kernel_size[2], q.dilation[2], q.is_causal[2])
      nj == window_start(c.j, q.width,  q.kernel_size[3], q.dilation[3], q.is_causal[3])
  IN [nk |-> nk, ni |-> ni, nj |-> nj,
      ek |-> window_end(c.k, nk, q.depth,  q.kernel_size[1], q.dilation[1], q.is_causal[1]),
      ei |-> window_end(c.i, ni, q.height, q.kernel_size[2], q.dilation[2], q.is_causal[2]),
      ej |-> window_end(c.j, nj, q.width,  q.kernel_size[3], q.dilation[3], q.is_causal[3])]

\* launch, lines 197-199: the positions one window loop visits, in order.
RECURSIVE loop_positions(_, _, _)
loop_positions(x, e, dilation) ==
  IF loop_continues(x, e)
  THEN <<x>> \o loop_positions(loop_next(x, dilation), e, dilation)
  ELSE <<>>

\* launch, lines 197-199: the triples (xk, xi, xj) the nested loops visit,
\* xk outermost and xj innermost.
visited_triples(w, q) ==
  LET ks == loop_positions(w.nk, w.ek, q.dilation[1])
      is == loop_positions(w.ni, w.ei, q.dilation[2])
      js == loop_positions(w.nj, w.ej, q.dilation[3])
  IN [n \in 1..(Len(ks) * Len(is) * Len(js)) |->
        <<ks[((n - 1) \div (Len(is) * Len(js))) + 1],
          is[(((n - 1) \div Len(js)) % Len(is)) + 1],
          js[((n - 1) % Len(js)) + 1]>>]

\* launch, lines 192-196.
weightsOffset(c, q) ==
  c.b * q.weights_stride[1] + c.h * q.weights_stride[2] + c.k * q.weights_stride[3]
  + c.i * q.weights_stride[4] + c.j * q.weights_stride[5]
valuesOffset(c, d, q) == c.b * q.values_stride[1] + c.h * q.values_stride[2] + d

\* launch, lines 200-201.
valuesIndex(c, d, t, q) ==
  valuesOffset(c, d, q) + t[1] * q.values_stride[3] + t[2] * q.values_stride[4]
  + t[3] * q.values_stride[5]

\* Mutant: the axis-0 offset is scaled by kernel_size_0 * kernel_size_1.
weights_enum_k0k1(w, t, q) ==
  axis_offset(t[1], w.nk, q.dilation[1]) * (q.kernel_size[1] * q.kernel_size[2])
  + axis_offset(t[2], w.ni, q.dilation[2]) * q.kernel_size[3]
  + axis_offset(t[3], w.nj, q.dilation[3])

\* launch, lines 202-206: the offset of a visited triple in the weights row.
weights_enum(w, t, q) ==
  axis_offset(t[1], w.nk, q.dilation[1]) * (q.kernel_size[2] * q.kernel_size[3])
  + axis_offset(t[2], w.ni, q.dilation[2]) * q.kernel_size[3]
  + axis_offset(t[3], w.nj, q.dilation[3])
weightsIndex(c, w, t, q) == weightsOffset(c, q) + weights_enum(w, t, q)

\* launch, line 207: weights[weightsIndex] * values[valuesIndex].
product(t, c, d, w, q) ==
  weights(weightsIndex(c, w, t, q)) * values(valuesIndex(c, d, t, q))

\* launch, lines 191 and 197-210: updt after the nested loops over the visited
\* triples ts of window w, accumulated in loop order from scalar_t(0).
updt(c, d, w, ts, q) ==
  LET acc[n \in 0..Len(ts)] ==
        IF n = 0 THEN 0 ELSE acc[n - 1] + product(ts[n], c, d, w, q)
  IN acc[Len(ts)]

\* launch, lines 211-213.
linearIndex(c, d, q) ==
  c.b * q.values_stride[1] + c.h * q.values_stride[2] + c.k * q.values_stride[3]
  + c.i * q.values_stride[4] + c.j * q.values_stride[5] + d

\* Whether f is an element of the output (and values) buffer of shape
\* (batch_size, heads, depth, height, width, dim).
InBuffer(f, q) ==
  /\ f >= 0
  /\ ((((f \div q.dim) \div q.width) \div q.height) \div q.depth) \div q.heads < q.batch_size

\* launch, line 214: output[linearIndex] = updt, by worker `who`. A store
\* outside the buffer is recorded in `stray`.
store(m, f, v, who, q) ==
  IF ~InBuffer(f, q)
  THEN [m EXCEPT !.stray = TRUE]
  ELSE IF f \in DOMAIN m.output
  THEN [m EXCEPT !.output[f] = v, !.nwrites[f] = @ + 1,
                 !.by[f] = @ \cup {<<who, wx[who]>>}]
  ELSE [m EXCEPT !.output = (f :> v) @@ @, !.nwrites = (f :> 1) @@ @,
                 !.by = (f :> {<<who, wx[who]>>}) @@ @]

\* ==================================================================
\* SpecEnum: the windows and the nested window loops of one coordinate.
\* ==================================================================
EnumInit ==
  /\ \E k \in 1..MaxEnumExtent, i \in 1..MaxEnumExtent, j \in 1..MaxEnumExtent :
     \E ks \in (1..k) \X (1..i) \X (1..j),
        ds \in (1..MaxEnumDilation) \X (1..MaxEnumDilation) \X (1..MaxEnumDilation),
        cs \in BOOLEAN \X BOOLEAN \X BOOLEAN,
        ck \in 0..(k - 1), ci \in 0..(i - 1), cj \in 0..(j - 1) :
       eq = [depth |-> k, height |-> i, width |-> j, kernel_size |-> ks,
             dilation |-> ds, is_causal |-> cs, c |-> [k |-> ck, i |-> ci, j |-> cj]]
  /\ epc = "windows"
  /\ ewin = [nk |-> 0, ni |-> 0, nj |-> 0, ek |-> 0, ei |-> 0, ej |-> 0]
  /\ eseen = <<>>

\* launch, lines 145-189.
ResolveWindows ==
  /\ epc = "windows"
  /\ ewin' = Window(eq.c, eq)
  /\ epc' = "loop"
  /\ UNCHANGED <<eq, eseen>>
  /\ UNCHANGED <<avars, lvars>>

\* launch, lines 199-208: one round of the innermost loop.
EnumStep ==
  /\ epc = "loop"
  /\ \E ts \in {visited_triples(ewin, eq)} :
       /\ Len(eseen) < Len(ts)
       /\ eseen' = Append(eseen, <<ts[Len(eseen) + 1],
                                   weights_enum(ewin, ts[Len(eseen) + 1], eq)>>)
  /\ UNCHANGED <<eq, epc, ewin>>
  /\ UNCHANGED <<avars, lvars>>

\* launch, line 197: the outermost loop ends.
EnumExit ==
  /\ epc = "loop"
  /\ Len(eseen) = Len(visited_triples(ewin, eq))
  /\ epc' = "done"
  /\ UNCHANGED <<eq, ewin, eseen>>
  /\ UNCHANGED <<avars, lvars>>

EnumNext == ResolveWindows \/ EnumStep \/ EnumExit

\* ==================================================================
\* Spec: the whole launch.
\* ==================================================================
Workers == 1..NumWorkers

\* launch, line 130: batch_size * heads * depth * height * width, in int32_t.
NumCoords(q) ==
  int32_mul(int32_mul(int32_mul(int32_mul(q.batch_size, q.heads), q.depth), q.height),
            q.width)

\* The arguments launch is called with; ws are the five weights strides.
Arguments(s, dm, ks, ds, cs, ws) ==
  [batch_size |-> s[1], heads |-> s[2], depth |-> s[3], height |-> s[4],
   width |-> s[5], dim |-> dm, kernel_size |-> ks, dilation |-> ds,
   is_causal |-> cs, weights_stride |-> ws]

\* launch, lines 111-127: the arguments together with the strides of values.
Locals(a) ==
  [batch_size |-> a.batch_size, heads |-> a.heads, depth |-> a.depth,
   height |-> a.height, width |-> a.width, dim |-> a.dim,
   kernel_size |-> a.kernel_size, dilation |-> a.dilation, is_causal |-> a.is_causal,
   weights_stride |-> a.weights_stride,
   values_stride |-> <<values_stride_0(a), values_stride_1(a), values_stride_2(a),
                       values_stride_3(a), values_stride_4(a)>>]

\* at::parallel_for(0, n, GRAIN_SIZE, f): nothing runs when n <= 0; otherwise
\* the range [0, n) is cut into NumWorkers contiguous chunks (a chunk may be
\* empty).
Chunkings(n) ==
  { [w \in Workers |-> [start |-> IF w = 1 THEN 0 ELSE cut[w - 1],
                        end   |-> IF w = NumWorkers THEN Max(n, 0) ELSE cut[w]]] :
      cut \in { c \in [1..(NumWorkers - 1) -> 0..Max(n, 0)] :
                  \A a \in 1..(NumWorkers - 2) : c[a] <= c[a + 1] } }

\* Shapes with 2^32, 2^31 and 2^32 + 2 coordinates.
HugeShapes ==
  { <<65536, 65536, 1, 1, 1>>, <<32768, 65536, 1, 1, 1>>, <<3, 1431655766, 1, 1, 1>> }

\* The state when parallel_for is entered with arguments a.
LaunchStart(a) ==
  /\ p = Locals(a)
  /\ chunk \in Chunkings(NumCoords(p))
  /\ wx = [w \in Workers |-> chunk[w].start]
  /\ wd = [w \in Workers |-> 0]
  /\ mem = [output  |-> [f \in {} |-> 0],
            nwrites |-> [f \in {} |-> 0],
            by      |-> [f \in {} |-> {}],
            stray   |-> FALSE]

\* Positive shapes with at most maxc coordinates, kernel_size <= extent and
\* dilation >= 1 on every axis, every weights layout; and the huge shapes
\* with one channel and kernel_size 1.
LaunchInitUpTo(maxc) ==
  \/ \E b \in 1..MaxAxis, h \in 1..MaxAxis, k \in 1..MaxAxis, i \in 1..MaxAxis,
        j \in 1..MaxAxis :
       /\ b * h * k * i * j <= maxc
       /\ \E dm \in 1..MaxDim, ks \in (1..k) \X (1..i) \X (1..j),
             ds \in (1..MaxLaunchDilation) \X (1..MaxLaunchDilation) \X (1..MaxLaunchDilation),
             cs \in BOOLEAN \X BOOLEAN \X BOOLEAN,
             pad \in 0..MaxPad, heads_first \in BOOLEAN :
          \E a \in {Arguments(<<b, h, k, i, j>>, dm, ks, ds, cs, <<>>)} :
            LaunchStart([a EXCEPT !.weights_stride = weights_strides(a, pad, heads_first)])
  \/ \E s \in HugeShapes :
     \E a \in {Arguments(s, 1, <<1, 1, 1>>, <<1, 1, 1>>, <<FALSE, FALSE, FALSE>>, <<>>)} :
       LaunchStart([a EXCEPT !.weights_stride = weights_strides(a, 0, FALSE)])

\* One round of the channel loop (lines 190-215) of worker w's coordinate x,
\* ending with the store of line 214; the first round follows the
\* decomposition of x and the window calls (lines 134-189), and the last one
\* is followed by x++ (line 133).
ChannelStep(w) ==
  /\ wx[w] < chunk[w].end
  /\ \E c \in {Coord(wx[w], p)} : \E win \in {Window(c, p)} :
       mem' = store(mem, linearIndex(c, wd[w], p),
                    updt(c, wd[w], win, visited_triples(win, p), p), w, p)
  /\ IF wd[w] + 1 < p.dim
     THEN wd' = [wd EXCEPT ![w] = @ + 1] /\ wx' = wx
     ELSE wd' = [wd EXCEPT ![w] = 0] /\ wx' = [wx EXCEPT ![w] = @ + 1]
  /\ UNCHANGED <<p, chunk>>
  /\ UNCHANGED <<avars, evars>>

LaunchNext == \E w \in Workers : ChannelStep(w)

\* parallel_for has returned: every worker has finished its chunk.
Done == \A w \in Workers : wx[w] = chunk[w].end

\* ------------------------------------------------------ specifications
AxisIdle ==
  /\ ax = [index |-> 0, length |-> 1, kernel_size |-> 1, dilation |-> 1, is_causal |-> FALSE]
  /\ apc = "done" /\ an = 0 /\ ae = 0 /\ axx = 0 /\ aseen = <<>>
EnumIdle ==
  /\ eq = [depth |-> 1, height |-> 1, width |-> 1, kernel_size |-> <<1, 1, 1>>,
           dilation |-> <<1, 1, 1>>, is_causal |-> <<FALSE, FALSE, FALSE>>,
           c |-> [k |-> 0, i |-> 0, j |-> 0]]
  /\ epc = "done"
  /\ ewin = [nk |-> 0, ni |-> 0, nj |-> 0, ek |-> 0, ei |-> 0, ej |-> 0]
  /\ eseen = <<>>
LaunchIdle ==
  /\ p = Locals(Arguments(<<1, 1, 1, 1, 1>>, 1, <<1, 1, 1>>, <<1, 1, 1>>,
                           <<FALSE, FALSE, FALSE>>, <<1, 1, 1, 1, 1>>))
  /\ chunk = [w \in Workers |-> [start |-> 0, end |-> 0]]
  /\ wx = [w \in Workers |-> 0]
  /\ wd = [w \in Workers |-> 0]
  /\ mem = [output |-> [f \in {} |-> 0], nwrites |-> [f \in {} |-> 0],
            by |-> [f \in {} |-> {}], stray |-> FALSE]

AxisSpecInit == AxisInit /\ EnumIdle /\ LaunchIdle
EnumSpecInit == EnumInit /\ AxisIdle /\ LaunchIdle
SpecInit == LaunchInitUpTo(MaxCoords) /\ AxisIdle /\ EnumIdle
FairInit == LaunchInitUpTo(MaxFairCoords) /\ AxisIdle /\ EnumIdle
SpecAxis == AxisSpecInit /\ [][AxisNext]_vars
SpecEnum == EnumSpecInit /\ [][EnumNext]_vars
Spec == SpecInit /\ [][LaunchNext]_vars
FairSpec == FairInit /\ [][LaunchNext]_vars /\ \A w \in Workers : WF_vars(ChannelStep(w))

\* ==================================================================
\* Properties of one axis (checked under SpecAxis).
\* ==================================================================
\* Both window bounds of the axis have been computed.
Resolved == apc \in {"loop", "done"}
\* The window loop has finished.
Looped == apc = "done"
SeenSet == { aseen[n] : n \in 1..Len(aseen) }

C6_SampleCount ==
  /\ Resolved => /\ Len(aseen) <= ax.kernel_size
                 /\ \A n \in 1..Len(aseen) :
                      /\ axis_offset(aseen[n], an, ax.dilation) = n - 1
                      /\ axis_offset(aseen[n], an, ax.dilation) \in 0..(ax.kernel_size - 1)
  /\ (Looped /\ ae > an) => /\ Len(aseen) * ax.dilation >= ae - an
                            /\ (Len(aseen) - 1) * ax.dilation < ae - an

\* A dilated loop that has visited exactly kernel_size positions.
C6_Witness ==
  /\ Looped /\ ax.dilation = 2 /\ ax.kernel_size = 3 /\ Len(aseen) = 3
  /\ ae - an = 6

\* C7 as stated: window_end - window_start <= kernel_size.
C7_Original == Resolved => ae - an <= ax.kernel_size

\* C7 amended: window_end - window_start <= kernel_size * dilation, which is
\* kernel_size when dilation == 1.
C7_Width ==
  Resolved => /\ ae - an <= ax.kernel_size * ax.dilation
              /\ (ax.dilation = 1 => ae - an <= ax.kernel_size)

\* A dilated window wider than kernel_size.
C7_Witness ==
  /\ Resolved /\ ~ax.is_causal /\ ax.kernel_size = 3 /\ ax.dilation = 2
  /\ ae - an = 6

C9_CausalSampling ==
  /\ (Resolved /\ ax.is_causal) => \A x \in SeenSet : x <= ax.index
  /\ (Looped /\ ax.is_causal)
       => /\ Len(aseen) >= 1
          /\ aseen[Len(aseen)] = ax.index
          /\ (ax.dilation = 1 => aseen[1] = Max(0, ax.index - ax.kernel_size + 1))
          /\ (ax.index = 0 => aseen = <<0>>)

\* A causal window clamped at the start of the axis: narrower than kernel_size.
C9_Witness ==
  /\ Looped /\ ax.is_causal /\ ax.kernel_size = 3 /\ ax.dilation = 1
  /\ ax.index = 1 /\ aseen = <<0, 1>>

\* ==================================================================
\* The brute-force reference.
\* ==================================================================
Axes == 1..3
Extent(q, a) == <<q.depth, q.height, q.width>>[a]
\* The positions of axis a the window of `index` samples, as a set.
SampleSet(index, a, q) ==
  LET n == get_window_start(index, Extent(q, a), q.kernel_size[a], q.kernel_size[a] \div 2,
                            q.dilation[a], q.is_causal[a])
      e == get_window_end(index, n, Extent(q, a), q.kernel_size[a], q.kernel_size[a] \div 2,
                          q.dilation[a], q.is_causal[a])
  IN { y \in n..(e - 1) : (y - n) % q.dilation[a] = 0 }
\* The offset of a sampled position is its rank in the sample set; enum is
\* row-major over the three ranks.
Rank(y, S) == Cardinality({ z \in S : z < y })
RefEnum(t, SK, SI, SJ, q) ==
  Rank(t[1], SK) * q.kernel_size[2] * q.kernel_size[3]
  + Rank(t[2], SI) * q.kernel_size[3] + Rank(t[3], SJ)

\* ==================================================================
\* Properties of one coordinate (checked under SpecEnum).
\* ==================================================================
\* C10: the weights offset of every visited triple is the row-major rank of
\* the triple (axis 0 slowest, axis 2 fastest), lies in [0, kernel_volume),
\* and differs from that of every other visited triple; the loops visit every
\* triple of the three sample sets.
C10_WeightEnumeration ==
  /\ \A n \in 1..Len(eseen) :
       /\ eseen[n][2] \in 0..(KernelVolume(eq) - 1)
       /\ eseen[n][2] = RefEnum(eseen[n][1], SampleSet(eq.c.k, 1, eq),
                                SampleSet(eq.c.i, 2, eq), SampleSet(eq.c.j, 3, eq), eq)
  /\ \A m \in 1..Len(eseen) : \A n \in 1..Len(eseen) :
       m # n => eseen[m][2] # eseen[n][2] /\ eseen[m][1] # eseen[n][1]
  /\ epc = "done" =>
       { eseen[n][1] : n \in 1..Len(eseen) }
         = SampleSet(eq.c.k, 1, eq) \X SampleSet(eq.c.i, 2, eq) \X SampleSet(eq.c.j, 3, eq)

\* The loops have visited a full 3 x 2 x 2 window: twelve triples, the last
\* at offset 11.
C10_Witness ==
  /\ epc = "done" /\ eq.kernel_size = <<3, 2, 2>> /\ eq.dilation = <<1, 1, 1>>
  /\ Len(eseen) = 12 /\ eseen[12][2] = 11 /\ eseen[5][2] = 4

\* ==================================================================
\* Properties of the whole launch (checked under Spec and FairSpec).
\* ==================================================================
\* Whether the number of coordinates of the tensors fits an int32_t.
Fits32(q) ==
  q.batch_size <= (((INT32_MAX \div q.heads) \div q.depth) \div q.height) \div q.width
\* The number of coordinates of the tensors, for a shape that Fits32.
RangeSize(q) == q.batch_size * q.heads * q.depth * q.height * q.width

\* The reference: coordinates come from x by remainders, the tensors are
\* indexed by their logical coordinates.
RefCoord(x, q) ==
  [j |-> x % q.width,
   i |-> (x \div q.width) % q.height,
   k |-> (x \div (q.width * q.height)) % q.depth,
   h |-> (x \div (q.width * q.height * q.depth)) % q.heads,
   b |-> x \div (q.width * q.height * q.depth * q.heads)]
ValueAt(c, t, d, q) ==
  values(((((c.b * q.heads + c.h) * q.depth + t[1]) * q.height + t[2]) * q.width + t[3])
          * q.dim + d)
WeightAt(c, e, q) ==
  weights(c.b * q.weights_stride[1] + c.h * q.weights_stride[2] + c.k * q.weights_stride[3]
          + c.i * q.weights_stride[4] + c.j * q.weights_stride[5] + e)
RefTerm(t, x, d, q) ==
  LET c == RefCoord(x, q)
  IN WeightAt(c, RefEnum(t, SampleSet(c.k, 1, q), SampleSet(c.i, 2, q),
                         SampleSet(c.j, 3, q), q), q)
     * ValueAt(c, t, d, q)
RECURSIVE RefSum(_, _, _, _)
RefSum(S, x, d, q) ==
  IF S = {} THEN 0
  ELSE LET t == CHOOSE u \in S : TRUE IN RefTerm(t, x, d, q) + RefSum(S \ {t}, x, d, q)
Reference(x, d, q) ==
  LET c == RefCoord(x, q)
  IN RefSum(SampleSet(c.k, 1, q) \X SampleSet(c.i, 2, q) \X SampleSet(c.j, 3, q), x, d, q)
\* Every element of the output holds its reference value.
MatchesReference ==
  /\ Fits32(p)
  /\ DOMAIN mem.output = 0..(RangeSize(p) * p.dim - 1)
  /\ \A f \in DOMAIN mem.output : mem.output[f] = Reference(f \div p.dim, f % p.dim, p)

\* C1 as stated: with kernel_size <= extent and dilation >= 1 on every axis,
\* once launch completes, under every chunking and interleaving, every
\* output[b,h,k,i,j,d] equals the brute-force reference sum.
C1_Original == Done => MatchesReference

\* The same for the shapes whose number of coordinates fits an int32_t; with
\* every extent, kernel_size and dim equal to 1 the one output is
\* weights[0] * values[0].
ReferenceEquivalenceInRange ==
  (Done /\ Fits32(p))
    => /\ MatchesReference
       /\ (RangeSize(p) = 1 /\ p.dim = 1) => mem.output[0] = weights(0) * values(0)

\* The output elements worker w has yet to store for its coordinate x.
PendingStores(w) ==
  IF wx[w] < chunk[w].end
  THEN { linearIndex(Coord(wx[w], p), d, p) : d \in wd[w]..(p.dim - 1) }
  ELSE {}

\* C2: distinct (x, d) of the range launch iterates have distinct linearIndex
\* (a property of the arguments alone, evaluated before the first store);
\* no output element is stored twice or by two workers; every store of
\* coordinate x by worker w has x in w's chunk and lands in the dim elements
\* of coordinate x; and what a worker is about to store has not been stored
\* and is not about to be stored by another worker.
C2_WriteDisjoint ==
  /\ ~mem.stray
  /\ mem.output = <<>> =>
       \A x1 \in 0..(Max(NumCoords(p), 0) - 1) : \A x2 \in 0..(Max(NumCoords(p), 0) - 1) :
       \A d1 \in 0..(p.dim - 1) : \A d2 \in 0..(p.dim - 1) :
         <<x1, d1>> # <<x2, d2>>
           => linearIndex(Coord(x1, p), d1, p) # linearIndex(Coord(x2, p), d2, p)
  /\ \A f \in DOMAIN mem.output :
       /\ mem.nwrites[f] = 1
       /\ Cardinality(mem.by[f]) = 1
       /\ \A e \in mem.by[f] :
            /\ chunk[e[1]].start <= e[2] /\ e[2] < chunk[e[1]].end
            /\ f \div p.dim = e[2]
  /\ \A w1 \in Workers :
       /\ PendingStores(w1) \cap DOMAIN mem.output = {}
       /\ \A w2 \in Workers \ {w1} : PendingStores(w1) \cap PendingStores(w2) = {}

\* Both workers are between the two stores of their coordinates, in a launch
\* over two heads and two rows.
C2_Witness ==
  /\ p.dim = 2 /\ p.heads = 2 /\ p.height = 2
  /\ wd = [w \in Workers |-> 1]
  /\ chunk[1].end = 1 /\ wx[2] = 2
  /\ DOMAIN mem.output = {0, 2, 3, 4}

\* Every element of batch x heads x depth x height x width x dim has been
\* stored exactly once, by the round of its own coordinate.
FullCoverage ==
  /\ Fits32(p)
  /\ DOMAIN mem.output = 0..(RangeSize(p) * p.dim - 1)
  /\ \A f \in DOMAIN mem.output :
       /\ mem.nwrites[f] = 1
       /\ \E w \in Workers : mem.by[f] = {<<w, f \div p.dim>>}

\* C3 as stated: for all positive shapes and dilation >= 1 the kernel
\* eventually completes, and at completion every output element has been
\* written exactly once.
C3_Original == <>Done /\ [](Done => FullCoverage)

\* The kernel always completes; for the shapes whose number of coordinates
\* fits an int32_t every output element has then been written exactly once.
CompletionInRange == <>Done /\ []((Done /\ Fits32(p)) => FullCoverage)

====
